---- MODULE Spec2Model ----
(***************************************************************************)
(* Model of the HTML -> ODT forward converter (HTMLtoODT, download_odt)    *)
(* and of the ODT -> Markdown reverse extractor (import_odt) of app.py.    *)
(***************************************************************************)
EXTENDS Integers, Sequences, FiniteSets, TLC

(***************************************************************************)
(* Arithmetic of Python floats (IEEE 754 binary64, round-half-to-even).    *)
(* A positive float is [m, e] with 2^52 <= m < 2^53 and value m * 2^e; the *)
(* mantissa is a natural number kept as a little-endian sequence of limbs, *)
(* because it does not fit the 32-bit integers of TLC.                     *)
(***************************************************************************)
RECURSIVE Pow2(_)
Pow2(n) == IF n = 0 THEN 1 ELSE 2 * Pow2(n - 1)

Base == Pow2(13)


Precision == 53

RECURSIVE BigOf(_)
BigOf(n) == IF n = 0 THEN <<>> ELSE <<n % Base>> \o BigOf(n \div Base)

RECURSIVE BigTrim(_)
BigTrim(a) ==
    IF a = <<>> THEN a
    ELSE IF a[Len(a)] = 0 THEN BigTrim(SubSeq(a, 1, Len(a) - 1)) ELSE a

Limb(a, i) == IF i <= Len(a) THEN a[i] ELSE 0

RECURSIVE BigAddFrom(_, _, _, _)
BigAddFrom(a, b, i, c) ==
    IF i > Len(a) /\ i > Len(b)
    THEN (IF c = 0 THEN <<>> ELSE <<c>>)
    ELSE <<(Limb(a, i) + Limb(b, i) + c) % Base>>
         \o BigAddFrom(a, b, i + 1, (Limb(a, i) + Limb(b, i) + c) \div Base)

BigAdd(a, b) == BigAddFrom(a, b, 1, 0)

RECURSIVE BigSubFrom(_, _, _, _)
BigSubFrom(a, b, i, borrow) ==
    IF i > Len(a) THEN <<>>
    ELSE LET d == Limb(a, i) - Limb(b, i) - borrow
         IN  IF d < 0 THEN <<d + Base>> \o BigSubFrom(a, b, i + 1, 1)
                      ELSE <<d>> \o BigSubFrom(a, b, i + 1, 0)

\* a - b for a >= b
BigSub(a, b) == BigTrim(BigSubFrom(a, b, 1, 0))

RECURSIVE BigCmpAt(_, _, _)
BigCmpAt(a, b, i) ==
    IF i = 0 THEN 0
    ELSE IF a[i] > b[i] THEN 1
    ELSE IF a[i] < b[i] THEN -1
    ELSE BigCmpAt(a, b, i - 1)

\* -1, 0 or 1 as a < b, a = b, a > b
BigCmp(a, b) ==
    IF Len(a) > Len(b) THEN 1
    ELSE IF Len(a) < Len(b) THEN -1
    ELSE BigCmpAt(a, b, Len(a))

RECURSIVE BigMulSmallFrom(_, _, _, _)
BigMulSmallFrom(a, k, i, c) ==
    IF i > Len(a) THEN BigOf(c)
    ELSE LET s == a[i] * k + c
         IN  <<s % Base>> \o BigMulSmallFrom(a, k, i + 1, s \div Base)

\* a * k for a machine integer 0 <= k < 2^17
BigMulSmall(a, k) == BigTrim(BigMulSmallFrom(a, k, 1, 0))

BigShiftLimbs(a, n) == IF a = <<>> THEN a ELSE [i \in 1..n |-> 0] \o a

RECURSIVE BigMulFrom(_, _, _)
BigMulFrom(a, b, i) ==
    IF i > Len(b) THEN <<>>
    ELSE BigAdd(BigShiftLimbs(BigMulSmall(a, b[i]), i - 1), BigMulFrom(a, b, i + 1))

BigMul(a, b) == BigTrim(BigMulFrom(a, b, 1))

BigDouble(a) == BigAdd(a, a)

RECURSIVE BigDoubleTimes(_, _)
BigDoubleTimes(a, n) == IF n = 0 THEN a ELSE BigDoubleTimes(BigDouble(a), n - 1)

\* a * 2^n
BigShl(a, n) == BigDoubleTimes(BigShiftLimbs(a, n \div 13), n % 13)

\* The number of bits of a > 0
BitLen(a) ==
    13 * (Len(a) - 1) + (CHOOSE k \in 1..13 : Pow2(k - 1) <= a[Len(a)] /\ a[Len(a)] < Pow2(k))

RECURSIVE BigHalfFrom(_, _, _)
BigHalfFrom(a, i, c) ==
    IF i = 0 THEN <<>>
    ELSE LET v == a[i] + c * Base
         IN  BigHalfFrom(a, i - 1, v % 2) \o <<v \div 2>>

\* floor(a / 2)
BigHalf(a) == BigTrim(BigHalfFrom(a, Len(a), 0))

BigIsOdd(a) == a # <<>> /\ a[1] % 2 = 1

\* One step of restoring division on s = <<q, r, t>>: the next quotient bit of
\* r by t.
DivStep(s) ==
    IF BigCmp(s[2], s[3]) >= 0
    THEN <<BigAdd(BigDouble(s[1]), <<1>>), BigSub(s[2], s[3]), s[3]>>
    ELSE <<BigDouble(s[1]), s[2], s[3]>>

\* A step, then t halved for the next one (CHOOSE r \in {F(v) : v \in {x}} is
\* F(x) with x evaluated once); then k of them, each on the value of the one
\* before.
DivHalve(s) == <<s[1], s[2], BigHalf(s[3])>>

Div1(s) == CHOOSE r \in {DivHalve(v) : v \in {DivStep(s)}} : TRUE

RECURSIVE DivBits(_, _)
DivBits(s, k) ==
    IF k = 0 THEN s
    ELSE CHOOSE r \in {DivBits(v, k - 1) : v \in {Div1(s)}} : TRUE

\* The 53 quotient bits of r by t / 2^52, from <<0, r, t>>: <<q, remainder, t / 2^52>>
Div53(s) == CHOOSE r \in {DivStep(v) : v \in {DivBits(s, Precision - 1)}} : TRUE

\* On a = <<n, d, e, j>>: n * 2^j and d * 2^52 (j >= 0), or n and d * 2^(52 - j)
\* (j < 0), with the exponent e - j
Shifted(a) ==
    IF a[4] >= 0 THEN <<BigShl(a[1], a[4]), BigShl(a[2], Precision - 1), a[3] - a[4]>>
                 ELSE <<a[1], BigShl(a[2], Precision - 1 - a[4]), a[3] - a[4]>>

\* One more doubling of n when the quotient would have 52 bits only.
Normalized(a) ==
    LET Fully(s) ==
            IF BigCmp(s[1], s[2]) < 0 THEN Shifted(<<a[1], a[2], a[3], a[4] + 1>>) ELSE s
    IN  CHOOSE r \in {Fully(v) : v \in {Shifted(a)}} : TRUE

\* The mantissa m < 2^54 and exponent e as a float: 2^53 becomes 2^52, e + 1.
RoundCarry(m, e) ==
    IF BigCmp(m, BigShl(<<1>>, Precision)) = 0
    THEN [m |-> BigShl(<<1>>, Precision - 1), e |-> e + 1]
    ELSE [m |-> m, e |-> e]

\* Round half to even: c compares twice the remainder with the divisor.
RoundQuotient(q, c, e) ==
    RoundCarry(IF c > 0 \/ (c = 0 /\ BigIsOdd(q)) THEN BigAdd(q, <<1>>) ELSE q, e)

\* On s = <<n, t, e>> with t <= n < 2 t, t = d * 2^52
RoundNormalized(s) ==
    LET Rounded(div) == RoundQuotient(div[1], BigCmp(BigDouble(div[2]), div[3]), s[3])
    IN  CHOOSE r \in {Rounded(v) : v \in {Div53(<<<<>>, s[1], s[2]>>)}} : TRUE

\* On a = <<n, d, e>>
NormalizedPacked(a) ==
    CHOOSE r \in {Normalized(v) :
                    v \in {<<a[1], a[2], a[3],
                             Precision - 1 - (BitLen(a[1]) - BitLen(a[2]))>>}} : TRUE

RoundPacked(a) == CHOOSE r \in {RoundNormalized(v) : v \in {NormalizedPacked(a)}} : TRUE

\* The float nearest to (n / d) * 2^e, ties to even, for naturals n, d > 0.
RoundDiv(n, d, e) == CHOOSE r \in {RoundPacked(v) : v \in {<<n, d, e>>}} : TRUE

\* float(n) and the true division n / k of two ints
FloatOfInt(n) == RoundDiv(BigOf(n), <<1>>, 0)

IntTrueDiv(n, k) == RoundDiv(BigOf(n), BigOf(k), 0)

\* x / y and x * y of two floats
FloatDiv(x, y) ==
    LET Div(a) == RoundDiv(a[1].m, a[2].m, a[1].e - a[2].e)
    IN  CHOOSE r \in {Div(v) : v \in {<<x, y>>}} : TRUE

FloatMul(x, y) ==
    LET Mul(a) == RoundDiv(BigMul(a[1].m, a[2].m), <<1>>, a[1].e + a[2].e)
    IN  CHOOSE r \in {Mul(v) : v \in {<<x, y>>}} : TRUE

\* Exact comparison of two dyadic numbers m * 2^e (mantissa of any size).
DyCmp(x, y) ==
    LET Cmp(a) ==
            IF a[1].e >= a[2].e THEN BigCmp(BigShl(a[1].m, a[1].e - a[2].e), a[2].m)
                                ELSE BigCmp(a[1].m, BigShl(a[2].m, a[2].e - a[1].e))
    IN  CHOOSE r \in {Cmp(v) : v \in {<<x, y>>}} : TRUE

FloatGt(x, y) == DyCmp(x, y) > 0


(***************************************************************************)
(* add_image: the print size of an image of width_px x height_px pixels.   *)
(***************************************************************************)
max_width_in == 6

dpi == 96

\* Mutant: the height is left unscaled when the width is clamped.
ScaledWidthOnly(inches) ==
    IF FloatGt(inches[1], FloatOfInt(max_width_in))
    THEN [width_in |-> FloatOfInt(max_width_in), height_in |-> inches[2]]
    ELSE [width_in |-> inches[1], height_in |-> inches[2]]

\* Lines 326-330, on inches = <<width_in, height_in>>
Scaled(inches) ==
    IF FloatGt(inches[1], FloatOfInt(max_width_in))
    THEN [width_in  |-> FloatOfInt(max_width_in),
          height_in |-> FloatMul(inches[2], FloatDiv(FloatOfInt(max_width_in), inches[1]))]
    ELSE [width_in |-> inches[1], height_in |-> inches[2]]

\* Lines 323-330
PrintSize(width, height) ==
    CHOOSE r \in {Scaled(v) :
                    v \in {<<IntTrueDiv(width, dpi), IntTrueDiv(height, dpi)>>}} : TRUE

NoFloat == [m |-> <<>>, e |-> 0]

(***************************************************************************)
(* Python strings.  Text data is a sequence of characters.  A tag or style *)
(* name is a sequence of tokens ("highlight-" followed by the tokens of    *)
(* the colour), which is what startswith() and replace() read of it.  An   *)
(* attribute value is described by what the handlers read of it: whether   *)
(* it is None (attribute given without a value), whether it is empty, the  *)
(* needles it contains as substrings (class), its tokens (data-color) and  *)
(* its urlparse() scheme and path, the path as its '/'-separated segments. *)
(***************************************************************************)
IsSpace(c) == c \in {" ", "\n", "\t"}

RECURSIVE LStrip(_)
LStrip(s) == IF s # <<>> /\ IsSpace(Head(s)) THEN LStrip(Tail(s)) ELSE s

RECURSIVE RStrip(_)
RStrip(s) ==
    IF s # <<>> /\ IsSpace(s[Len(s)]) THEN RStrip(SubSeq(s, 1, Len(s) - 1)) ELSE s

\* str.strip()
Strip(s) == RStrip(LStrip(s))

\* str.capitalize() of the style names the converter uses
Capitalize(tok) ==
    CASE tok = "bold"   -> "Bold"
      [] tok = "italic" -> "Italic"
      [] tok = "yellow" -> "Yellow"
      [] tok = "green"  -> "Green"
      [] tok = "blue"   -> "Blue"
      [] tok = "gray"   -> "Gray"
      [] tok = "orange" -> "Orange"
      [] tok = "purple" -> "Purple"
      [] OTHER          -> tok

\* s.startswith('highlight-')
StartsWithHighlight(s) == Len(s) >= 1 /\ s[1] = "highlight-"

\* s.replace('highlight-', '')
ReplaceHighlight(s) == SelectSeq(s, LAMBDA t : t # "highlight-")

EmptyStr ==
    [absent |-> FALSE, isNone |-> FALSE, empty |-> TRUE, contains |-> {},
     toks |-> <<>>, scheme |-> "", path |-> <<"">>]

\* The attribute is not in the tag.
Absent == [EmptyStr EXCEPT !.absent = TRUE]

NoneVal == [EmptyStr EXCEPT !.isNone = TRUE]

ClassVal(needles) == [EmptyStr EXCEPT !.empty = FALSE, !.contains = needles]

ColorVal(toks) == [EmptyStr EXCEPT !.empty = FALSE, !.toks = toks]

SrcVal(scheme, path) == [EmptyStr EXCEPT !.empty = FALSE, !.scheme = scheme, !.path = path]

\* bool(v) of a str or None
Truthy(v) == ~v.isNone /\ ~v.empty

\* dict(attrs).get(name, '')
AttrGet(attrs, name) == IF attrs[name].absent THEN EmptyStr ELSE attrs[name]

(***************************************************************************)
(* The document tree (odfpy nodes).  An element has a qname, attributes    *)
(* and childNodes; a text node has data and no qname.                      *)
(***************************************************************************)
Element(qname, kids) ==
    [nodeType |-> "element", qname |-> qname, outlinelevel |-> <<>>,
     stylename |-> <<>>, width |-> NoFloat, height |-> NoFloat, href |-> <<>>,
     data |-> <<>>, childNodes |-> kids]

TextNode(data) == [Element("", <<>>) EXCEPT !.nodeType = "text", !.data = data]

\* self.current_para = None
None == [Element("", <<>>) EXCEPT !.nodeType = "None"]

\* str(n) and int(s) for a decimal numeral
Digit(n) == SubSeq(<<"0", "1", "2", "3", "4", "5", "6", "7", "8", "9">>, n + 1, n + 1)

RECURSIVE IntToStr(_)
IntToStr(n) == IF n < 10 THEN Digit(n) ELSE IntToStr(n \div 10) \o Digit(n % 10)

DigitValue(c) ==
    CHOOSE n \in 0..9 : Digit(n) = <<c>>

RECURSIVE StrToInt(_)
StrToInt(s) ==
    IF Len(s) = 1 THEN DigitValue(s[1])
    ELSE 10 * StrToInt(SubSeq(s, 1, Len(s) - 1)) + DigitValue(s[Len(s)])

\* P(), H(outlinelevel=level), Span(stylename=...) with its text, Frame(...)
P == Element("p", <<>>)

H(level) == [Element("h", <<>>) EXCEPT !.outlinelevel = IntToStr(level)]

Span(stylename, data) ==
    [Element("span", <<TextNode(data)>>) EXCEPT !.stylename = stylename]

Frame(inches, href) ==
    [Element("frame", <<[Element("image", <<>>) EXCEPT !.href = href]>>)
        EXCEPT !.width = inches.width_in, !.height = inches.height_in,
               !.stylename = <<"ImageStyle">>]

\* element.addElement(child), element.addText(data)
AddChild(node, child) == [node EXCEPT !.childNodes = Append(@, child)]


(***************************************************************************)
(* add_image: from the src to the file.  A path is its sequence of         *)
(* '/'-separated segments: '/images/a.png' is <<"", "images", "a.png">>.   *)
(***************************************************************************)
\* parsed.path.startswith('/images/')
StartsWithImages(path) == Len(path) >= 3 /\ path[1] = "" /\ path[2] = "images"

\* The segment of the last '/images/' that str.split finds scanning from pos.
RECURSIVE LastImages(_, _, _)
LastImages(path, pos, last) ==
    IF pos >= Len(path) THEN last
    ELSE IF path[pos] = "images" THEN LastImages(path, pos + 2, pos)
    ELSE LastImages(path, pos + 1, last)

\* parsed.path.split('/images/')[-1]
SplitImagesLast(path) ==
    LET last == LastImages(path, 2, 0) IN SubSeq(path, last + 1, Len(path))

\* parsed.path.lstrip('/')
RECURSIVE LStripSlash(_)
LStripSlash(path) ==
    IF Len(path) > 1 /\ path[1] = "" THEN LStripSlash(Tail(path)) ELSE path

\* urllib.parse.unquote of one segment (the escapes of the sampled inputs)
UnquoteSegment(seg) ==
    CASE seg = "%2e%2e" -> ".."
      [] seg = "a%2epng" -> "a.png"
      [] OTHER -> seg

Unquote(path) == [i \in 1..Len(path) |-> UnquoteSegment(path[i])]

\* app.config["IMAGE_FOLDER"], as the segments of its absolute path
image_folder == <<"docs", "imagenes">>

\* os.path.join(self.image_folder, img_filename), as absolute segments
PathJoin(folder, filename) ==
    IF Len(filename) > 1 /\ filename[1] = "" THEN Tail(filename) ELSE folder \o filename

\* What the file system makes of an absolute path: "", "." and ".." resolved.
RECURSIVE Normalize(_, _)
Normalize(segs, acc) ==
    IF segs = <<>> THEN acc
    ELSE IF Head(segs) \in {"", "."} THEN Normalize(Tail(segs), acc)
    ELSE IF Head(segs) = ".."
         THEN Normalize(Tail(segs), IF acc = <<>> THEN acc ELSE SubSeq(acc, 1, Len(acc) - 1))
    ELSE Normalize(Tail(segs), Append(acc, Head(segs)))

\* The files of the sampled file system: kind is "image" (PIL reads its size),
\* "corrupt" (exists, PIL.Image.open raises), "dir" or "missing".
FileAt(abs) ==
    LET n == Normalize(abs, <<>>)
    IN  CASE n = <<"docs", "imagenes", "a.png">>     -> [kind |-> "image", w |-> 1200, h |-> 800]
          [] n = <<"docs", "imagenes", "small.png">> -> [kind |-> "image", w |-> 480, h |-> 320]
          [] n = <<"docs", "imagenes", "bad.png">>   -> [kind |-> "corrupt", w |-> 0, h |-> 0]
          [] n = <<"docs", "secret.png">>            -> [kind |-> "image", w |-> 96, h |-> 96]
          [] n \in {<<>>, <<"docs">>, <<"docs", "imagenes">>} -> [kind |-> "dir", w |-> 0, h |-> 0]
          [] OTHER -> [kind |-> "missing", w |-> 0, h |-> 0]

\* Mutant: the scheme of the src is not looked at.
ResolveImageAnyScheme(img_src) ==
    IF StartsWithImages(img_src.path)
    THEN [skip |-> FALSE,
          img_path |-> PathJoin(image_folder, Unquote(SplitImagesLast(img_src.path)))]
    ELSE [skip |-> FALSE,
          img_path |-> PathJoin(image_folder, Unquote(LStripSlash(img_src.path)))]

\* Lines 296-310: the file an img src names; skip is the early return.
ResolveImage(img_src) ==
    IF StartsWithImages(img_src.path)
    THEN [skip |-> FALSE,
          img_path |-> PathJoin(image_folder, Unquote(SplitImagesLast(img_src.path)))]
    ELSE IF img_src.scheme \in {"http", "https"}
    THEN [skip |-> TRUE, img_path |-> <<>>]
    ELSE [skip |-> FALSE,
          img_path |-> PathJoin(image_folder, Unquote(LStripSlash(img_src.path)))]

\* The print sizes of the sampled files, each computed once.
Size1200x800 == PrintSize(1200, 800)

Size480x320 == PrintSize(480, 320)

Size96x96 == PrintSize(96, 96)

SizeOf(w, h) ==
    CASE <<w, h>> = <<1200, 800>> -> Size1200x800
      [] <<w, h>> = <<480, 320>>  -> Size480x320
      [] <<w, h>> = <<96, 96>>    -> Size96x96

(***************************************************************************)
(* HTMLtoODT.  S is the parser object: current_para, style_stack,          *)
(* image_counter, and body, the children of doc.text; exc names the        *)
(* exception a handler raised ("" when it returned).                       *)
(***************************************************************************)
color_map == <<"yellow", "green", "blue", "gray", "orange", "purple">>

Range(f) == {f[i] : i \in DOMAIN f}

\* highlight_styles: colour name -> the Style named Highlight<Colour>
HasHighlightStyle(color) == Len(color) = 1 /\ color[1] \in Range(color_map)

HighlightStyle(color) == <<"Highlight", Capitalize(color[1])>>

\* objects tells the nodes apart that are equal in content: the paragraphs
\* and headings made so far are numbered 1 .. made in the order of their
\* construction, para is the number of the object self.current_para is bound
\* to (0 for None), body the numbers of the children of doc.text.
NewParser ==
    [current_para |-> None, style_stack |-> <<>>, body |-> <<>>,
     image_counter |-> 0, exc |-> "",
     objects |-> [para |-> 0, body |-> <<>>, made |-> 0]]

\* Mutant: the paragraph under construction is emptied and used again, no
\* new object is made when there is one.
NewBlockSameObject(S, node) ==
    [S EXCEPT !.current_para = node,
              !.objects = IF @.para # 0 THEN @
                          ELSE [para |-> @.made + 1, body |-> @.body, made |-> @.made + 1]]

\* self.current_para = P() or H(outlinelevel=level): a new object
NewBlock(S, node) ==
    [S EXCEPT !.current_para = node,
              !.objects = [para |-> @.made + 1, body |-> @.body, made |-> @.made + 1]]

\* self.doc.text.addElement(self.current_para)
AddCurrent(S) ==
    [S EXCEPT !.body = Append(@, S.current_para),
              !.objects.body = Append(@, S.objects.para)]

\* Mutant: the exception of a failed read leaves add_image.
AddImagePropagates(S, img_src) ==
    LET r == ResolveImage(img_src)
        f == FileAt(r.img_path)
    IN  IF r.skip \/ f.kind = "missing" THEN S
        ELSE IF f.kind # "image" THEN [S EXCEPT !.exc = "OSError"]
        ELSE LET frame == Frame(SizeOf(f.w, f.h), r.img_path)
             IN  [S EXCEPT !.image_counter = @ + 1,
                           !.body = Append(@, AddChild(P, frame)),
                           !.objects = [para |-> @.para,
                                        body |-> Append(@.body, @.made + 1),
                                        made |-> @.made + 1]]

add_image(S, img_src) ==
    LET r == ResolveImage(img_src)
        f == FileAt(r.img_path)
    IN  IF r.skip \/ f.kind = "missing" THEN S
        ELSE IF f.kind # "image" THEN S      \* PIL raises, caught on line 351
        ELSE LET frame == Frame(SizeOf(f.w, f.h), r.img_path)
             IN  [S EXCEPT !.image_counter = @ + 1,
                           !.body = Append(@, AddChild(P, frame)),
                           !.objects = [para |-> @.para,
                                        body |-> Append(@.body, @.made + 1),
                                        made |-> @.made + 1]]

\* Lines 258-263: the entry a span pushes, <<>> when it pushes none.
RECURSIVE SpanColor(_, _)
SpanColor(class_attr, i) ==
    IF i > Len(color_map) THEN <<>>
    ELSE IF <<"hl-", color_map[i]>> \in class_attr.contains
         THEN <<"highlight-", color_map[i]>>
    ELSE SpanColor(class_attr, i + 1)

BlockTags == {"p", "div"}

HeadingTags == {"h1", "h2", "h3", "h4", "h5", "h6"}

\* int(tag[1]) of a heading tag
HeadingLevel(tag) ==
    CASE tag = "h1" -> 1 [] tag = "h2" -> 2 [] tag = "h3" -> 3
      [] tag = "h4" -> 4 [] tag = "h5" -> 5 [] tag = "h6" -> 6

\* Mutant: a paragraph without children is dropped, not added to the body.
AddParagraphUnlessEmpty(S) ==
    IF S.current_para # None /\ S.current_para.childNodes # <<>>
    THEN [AddCurrent(S) EXCEPT !.current_para = None, !.objects.para = 0]
    ELSE [S EXCEPT !.current_para = None, !.objects.para = 0]

\* Lines 356-358 and 282-284: the paragraph under construction joins the body.
AddParagraph(S) ==
    IF S.current_para # None
    THEN [AddCurrent(S) EXCEPT !.current_para = None, !.objects.para = 0]
    ELSE S

\* Mutant: a br with no paragraph under construction adds nothing to the body.
LineBreakAddsOpenOnly(S) ==
    NewBlock(IF S.current_para = None THEN S ELSE AddCurrent(S), P)

\* Lines 270-274: br
LineBreak(S) ==
    NewBlock(AddCurrent(IF S.current_para = None THEN NewBlock(S, P) ELSE S), P)

\* Mutant: no paragraph is started after the image.
StartParagraphNever(S) == S

\* Lines 289-290: after add_image, the img tag starts a new paragraph.
StartParagraph(S) == IF S.exc # "" THEN S ELSE NewBlock(S, P)

handle_starttag(S, tag, attrs) ==
    IF tag \in BlockTags THEN NewBlock(S, P)
    ELSE IF tag \in HeadingTags THEN NewBlock(S, H(HeadingLevel(tag)))
    ELSE IF tag \in {"strong", "b"} THEN [S EXCEPT !.style_stack = Append(@, <<"bold">>)]
    ELSE IF tag \in {"em", "i"} THEN [S EXCEPT !.style_stack = Append(@, <<"italic">>)]
    ELSE IF tag = "span" THEN
        LET class_attr == AttrGet(attrs, "class")
        IN  IF class_attr.isNone THEN [S EXCEPT !.exc = "TypeError"]
            ELSE IF <<"text-highlight">> \in class_attr.contains
                    /\ SpanColor(class_attr, 1) # <<>>
            THEN [S EXCEPT !.style_stack = Append(@, SpanColor(class_attr, 1))]
            ELSE S
    ELSE IF tag = "mark" THEN
        LET color == AttrGet(attrs, "data-color")
        IN  IF Truthy(color)
            THEN [S EXCEPT !.style_stack = Append(@, <<"highlight-">> \o color.toks)]
            ELSE S
    ELSE IF tag = "br" THEN LineBreak(S)
    ELSE IF tag = "img" THEN
        LET img_src == AttrGet(attrs, "src")
        IN  IF Truthy(img_src)
            THEN StartParagraph(add_image(AddParagraph(S), img_src))
            ELSE S
    ELSE S

\* Mutant: a span end tag pops whatever is on top.
EndSpanPopsAny(stack) ==
    IF stack # <<>>
    THEN SubSeq(stack, 1, Len(stack) - 1)
    ELSE stack

\* Lines 362-365
EndSpan(stack) ==
    IF stack # <<>> /\ StartsWithHighlight(stack[Len(stack)])
    THEN SubSeq(stack, 1, Len(stack) - 1)
    ELSE stack

\* Mutant: an end tag pops nothing.
EndStylePopsNothing(stack) == stack

\* Lines 359-361
EndStyle(stack) ==
    IF stack # <<>>
    THEN SubSeq(stack, 1, Len(stack) - 1)
    ELSE stack

\* Mutant: the end of a block also ends the styles that are open.
HandleEndtagClosesStyles(S, tag) ==
    IF tag \in BlockTags \cup HeadingTags
    THEN [AddParagraph(S) EXCEPT !.style_stack = <<>>]
    ELSE IF tag \in {"strong", "b", "em", "i", "mark"}
    THEN [S EXCEPT !.style_stack = EndStyle(@)]
    ELSE IF tag = "span" THEN [S EXCEPT !.style_stack = EndSpan(@)]
    ELSE S

handle_endtag(S, tag) ==
    IF tag \in BlockTags \cup HeadingTags THEN AddParagraph(S)
    ELSE IF tag \in {"strong", "b", "em", "i", "mark"}
    THEN [S EXCEPT !.style_stack = EndStyle(@)]
    ELSE IF tag = "span" THEN [S EXCEPT !.style_stack = EndSpan(@)]
    ELSE S

\* Mutant: styles compose from the bottom, the first pushed style wins.
RunNodeFirstPushed(stack, data) ==
    IF stack # <<>>
    THEN LET style_name == stack[1]
         IN  IF StartsWithHighlight(style_name)
             THEN LET color == ReplaceHighlight(style_name)
                  IN  IF HasHighlightStyle(color)
                      THEN Span(HighlightStyle(color), data)
                      ELSE TextNode(data)
             ELSE Span(<<Capitalize(style_name[1])>>, data)
    ELSE TextNode(data)

\* Lines 372-390: the node a text run becomes
RunNode(stack, data) ==
    IF stack # <<>>
    THEN LET style_name == stack[Len(stack)]
         IN  IF StartsWithHighlight(style_name)
             THEN LET color == ReplaceHighlight(style_name)
                  IN  IF HasHighlightStyle(color)
                      THEN Span(HighlightStyle(color), data)
                      ELSE TextNode(data)
             ELSE Span(<<Capitalize(style_name[1])>>, data)
    ELSE TextNode(data)

\* Mutant: text of white space is a run like any other.
HandleDataKeepsWhitespace(S, data) ==
    [(IF S.current_para = None THEN NewBlock(S, P) ELSE S)
        EXCEPT !.current_para = AddChild(@, RunNode(S.style_stack, data))]

handle_data(S, data) ==
    IF Strip(data) # <<>>
    THEN [(IF S.current_para = None THEN NewBlock(S, P) ELSE S)
            EXCEPT !.current_para = AddChild(@, RunNode(S.style_stack, data))]
    ELSE S


(***************************************************************************)
(* The events HTMLParser.feed hands to the handlers.                       *)
(***************************************************************************)
AttrNames == {"class", "data-color", "src"}

NoAttrs == [n \in AttrNames |-> Absent]

StartTag(tag, attrs) == [type |-> "start", tag |-> tag, attrs |-> attrs, data |-> <<>>]

EndTag(tag) == [type |-> "end", tag |-> tag, attrs |-> NoAttrs, data |-> <<>>]

Text(data) == [type |-> "data", tag |-> "", attrs |-> NoAttrs, data |-> data]

Handle(S, ev) ==
    CASE ev.type = "start" -> handle_starttag(S, ev.tag, ev.attrs)
      [] ev.type = "end"   -> handle_endtag(S, ev.tag)
      [] ev.type = "data"  -> handle_data(S, ev.data)

\* <span class="text-highlight hl-yellow">, <span class="note">, <span>, <span class>
SpanYellow == StartTag("span", [NoAttrs EXCEPT !["class"] = ClassVal({<<"text-highlight">>, <<"hl-", "yellow">>})])
SpanNote == StartTag("span", [NoAttrs EXCEPT !["class"] = ClassVal({<<"note">>})])
SpanBare == StartTag("span", NoAttrs)
SpanClassNone == StartTag("span", [NoAttrs EXCEPT !["class"] = NoneVal])

\* <mark data-color="yellow">, <mark data-color="pink">, <mark>, <mark data-color>,
\* <mark data-color="highlight-yellow">
MarkYellow == StartTag("mark", [NoAttrs EXCEPT !["data-color"] = ColorVal(<<"yellow">>)])
MarkPink == StartTag("mark", [NoAttrs EXCEPT !["data-color"] = ColorVal(<<"pink">>)])
MarkBare == StartTag("mark", NoAttrs)
MarkColorNone == StartTag("mark", [NoAttrs EXCEPT !["data-color"] = NoneVal])
MarkHighlightYellow ==
    StartTag("mark", [NoAttrs EXCEPT !["data-color"] = ColorVal(<<"highlight-", "yellow">>)])

Img(scheme, path) == StartTag("img", [NoAttrs EXCEPT !["src"] = SrcVal(scheme, path)])

\* <img src="http://example.com/x.png">, ".../a.png", ".../images/a.png"
ImgExternal == Img("http", <<"", "x.png">>)
ImgExternalA == Img("https", <<"", "a.png">>)
ImgExternalServed == Img("http", <<"", "images", "a.png">>)
\* <img src="/images/a.png">, "/images/missing.png", "/images/bad.png", "small.png"
ImgServed == Img("", <<"", "images", "a.png">>)
ImgMissing == Img("", <<"", "images", "missing.png">>)
ImgCorrupt == Img("", <<"", "images", "bad.png">>)
ImgRelative == Img("", <<"small.png">>)
ImgNoSrc == StartTag("img", NoAttrs)

(***************************************************************************)
(* One conversion: parser.feed(html_content) of download_odt.              *)
(***************************************************************************)
VARIABLES
    pc,             \* where the request is
    hist,           \* the events of the input so far, handled or not
    handled,        \* how many of them a handler has returned from
    current_para, style_stack, body, image_counter,
    objects,        \* which object each block is, see NewParser
    input,          \* the events of the input still to come, when it is fixed
    odt_path, tmp_path,     \* whether the local name is bound
    tmpfile,        \* the temporary file: "none", "exists" or "deleted"
    response,       \* the status returned: 0 (none yet), 200 or 500
    upload,         \* the children of the body of the document import_odt loads
    markdown_content,
    width_px, height_px, size,  \* pil_img.size and the print size computed of it
    conversions     \* the requests of download_odt that run at the same time

vars ==
    <<pc, hist, handled, current_para, style_stack, body, image_counter, objects, input,
      odt_path, tmp_path, tmpfile, response, upload, markdown_content,
      width_px, height_px, size, conversions>>

ioVars == <<input, odt_path, tmp_path, tmpfile, response, upload, markdown_content>>

sizeVars == <<width_px, height_px, size>>

parserVars == <<current_para, style_stack, body, image_counter, objects>>

Self ==
    [current_para |-> current_para, style_stack |-> style_stack, body |-> body,
     image_counter |-> image_counter, exc |-> "", objects |-> objects]

Becomes(S) ==
    /\ current_para' = S.current_para
    /\ style_stack' = S.style_stack
    /\ body' = S.body
    /\ image_counter' = S.image_counter
    /\ objects' = S.objects


NoSize == [width_in |-> NoFloat, height_in |-> NoFloat]

InitParser ==
    /\ hist = <<>>
    /\ handled = 0
    /\ current_para = NewParser.current_para
    /\ style_stack = NewParser.style_stack
    /\ body = NewParser.body
    /\ image_counter = NewParser.image_counter
    /\ objects = NewParser.objects

InitIO ==
    /\ input = <<>>
    /\ odt_path = FALSE
    /\ tmp_path = FALSE
    /\ tmpfile = "none"
    /\ response = 0
    /\ upload = <<>>
    /\ markdown_content = <<>>

InitSize ==
    /\ width_px = 0
    /\ height_px = 0
    /\ size = NoSize

\* One request only
InitAlone == conversions = <<>>

\* parser.feed calls the handler of the next event; an exception leaves feed.
FeedEvent(ev) ==
    \E S \in {Handle(Self, ev)} :
        /\ hist' = Append(hist, ev)
        /\ Becomes(S)
        /\ IF S.exc # ""
           THEN pc' = "raised" /\ handled' = handled
           ELSE pc' = pc /\ handled' = handled + 1

Feed(events, max) ==
    /\ pc = "feed"
    /\ Len(hist) < max
    /\ \E ev \in events : FeedEvent(ev)
    /\ UNCHANGED <<ioVars, sizeVars, conversions>>

\* After an exception the rest of the input is never handled.
Unread(events, max) ==
    /\ pc = "raised"
    /\ Len(hist) < max
    /\ \E ev \in events : hist' = Append(hist, ev)
    /\ UNCHANGED <<pc, handled, parserVars, ioVars, sizeVars, conversions>>

\* parser.feed returns at the end of the input.
FeedReturns ==
    /\ pc = "feed"
    /\ pc' = "parsed"
    /\ UNCHANGED <<hist, handled, parserVars, ioVars, sizeVars, conversions>>

InitFeed == pc = "feed" /\ InitParser /\ InitIO /\ InitSize /\ InitAlone

(***************************************************************************)
(* Spec: inputs of blocks, breaks, text and wrappers.                      *)
(***************************************************************************)
MaxEvents == 5

BlockEvents ==
    {StartTag("p", NoAttrs), EndTag("p"), StartTag("div", NoAttrs), EndTag("div"),
     StartTag("h2", NoAttrs), EndTag("h2"), StartTag("br", NoAttrs),
     StartTag("li", NoAttrs), SpanClassNone, Text(<<"x">>), Text(<<" ">>)}

FeedBlocks == Feed(BlockEvents, MaxEvents)

UnreadBlocks == Unread(BlockEvents, MaxEvents)

Next == FeedBlocks \/ UnreadBlocks \/ FeedReturns

Spec == InitFeed /\ [][Next]_vars

(***************************************************************************)
(* SpecStyles: inputs of inline style tags and text.                       *)
(***************************************************************************)
MaxStyleEvents == 5

StyleEvents ==
    {StartTag("strong", NoAttrs), EndTag("strong"), SpanYellow, SpanBare, SpanClassNone,
     EndTag("span"), MarkPink, MarkBare, MarkHighlightYellow, EndTag("mark"),
     Text(<<"x">>)}

FeedStyles == Feed(StyleEvents, MaxStyleEvents)

UnreadStyles == Unread(StyleEvents, MaxStyleEvents)

NextStyles == FeedStyles \/ UnreadStyles \/ FeedReturns

SpecStyles == InitFeed /\ [][NextStyles]_vars

(***************************************************************************)
(* SpecImages: inputs of images among blocks, styles and text.             *)
(***************************************************************************)
MaxImageEvents == 4

ImageEvents ==
    {ImgExternal, ImgExternalA, ImgExternalServed, ImgServed, ImgMissing, ImgCorrupt,
     ImgRelative, ImgNoSrc, StartTag("p", NoAttrs), EndTag("p"),
     StartTag("b", NoAttrs), Text(<<"x">>)}

FeedImages == Feed(ImageEvents, MaxImageEvents)

NextImages == FeedImages \/ FeedReturns

SpecImages == InitFeed /\ [][NextImages]_vars

(***************************************************************************)
(* What a run of the converter has read: hist is the input so far, its     *)
(* first `handled` events are those a handler has returned from.           *)
(***************************************************************************)
Handled == SubSeq(hist, 1, handled)

IsBlockStart(ev) == ev.type = "start" /\ ev.tag \in BlockTags \cup HeadingTags

IsBlockEnd(ev) == ev.type = "end" /\ ev.tag \in BlockTags \cup HeadingTags

IsStart(ev, tag) == ev.type = "start" /\ ev.tag = tag

\* A Text event with non-whitespace content
IsText(ev) == ev.type = "data" /\ \E i \in DOMAIN ev.data : ~IsSpace(ev.data[i])

Count(events, Test(_)) == Cardinality({i \in DOMAIN events : Test(events[i])})

\* The text runs of a node: its text children and its spans
IsRun(node) == node.nodeType = "text" \/ node.qname = "span"

RECURSIVE RunsIn(_)
RunsIn(nodes) ==
    IF nodes = <<>> THEN 0
    ELSE Count(Head(nodes).childNodes, IsRun) + RunsIn(Tail(nodes))

IsParagraphOrHeading(node) == node.qname \in {"p", "h"}

\* The top-level p, div and h1..h6 elements of the events from the i-th on,
\* read at nesting depth `depth`
RECURSIVE TopLevelFrom(_, _, _)
TopLevelFrom(events, i, depth) ==
    IF i > Len(events) THEN 0
    ELSE IF IsBlockStart(events[i])
         THEN (IF depth = 0 THEN 1 ELSE 0) + TopLevelFrom(events, i + 1, depth + 1)
    ELSE IF IsBlockEnd(events[i])
         THEN TopLevelFrom(events, i + 1, IF depth > 0 THEN depth - 1 ELSE 0)
    ELSE TopLevelFrom(events, i + 1, depth)

TopLevelBlocks(events) == TopLevelFrom(events, 1, 0)

\* The tags in `tags` are well nested in the events from the i-th on, `open`
\* being the elements open there; with `closed`, none is left open at the end.
RECURSIVE Nested(_, _, _, _, _)
Nested(events, i, open, tags, closed) ==
    IF i > Len(events) THEN ~closed \/ open = <<>>
    ELSE IF events[i].type = "start" /\ events[i].tag \in tags
         THEN Nested(events, i + 1, Append(open, events[i].tag), tags, closed)
    ELSE IF events[i].type = "end" /\ events[i].tag \in tags
         THEN /\ open # <<>>
              /\ open[Len(open)] = events[i].tag
              /\ Nested(events, i + 1, SubSeq(open, 1, Len(open) - 1), tags, closed)
    ELSE Nested(events, i + 1, open, tags, closed)

\* Every block element of the events is closed by its own end tag.
WellFormedBlocks(events) == Nested(events, 1, <<>>, BlockTags \cup HeadingTags, TRUE)

\* Blocks follow one another, none inside another, the last possibly open.
RECURSIVE FlatFrom(_, _, _)
FlatFrom(events, i, open) ==
    IF i > Len(events) THEN TRUE
    ELSE IF IsBlockStart(events[i])
         THEN open = "" /\ FlatFrom(events, i + 1, events[i].tag)
    ELSE IF IsBlockEnd(events[i])
         THEN open = events[i].tag /\ FlatFrom(events, i + 1, "")
    ELSE FlatFrom(events, i + 1, open)

FlatBlocks(events) == FlatFrom(events, 1, "")

NoTag(events, tag) == \A i \in DOMAIN events : ~IsStart(events[i], tag)

(***************************************************************************)
(* Claims on Spec                                                          *)
(***************************************************************************)
\* C1, as stated: when the pass over the events has finished, every Text
\* event with non-whitespace content is a run of a node of the body.  A run
\* comes from one Text event only, so this is: the body holds as many runs
\* as the input has such events.
C1_NoTextLost == pc = "parsed" => RunsIn(body) = Count(hist, IsText)

\* C2, as stated: with no img in the input, the body holds after the pass as
\* many Paragraph/Heading nodes as the input has top-level p, div and
\* h1..h6 elements, br tags and blocks nested in a div included.
C2_CountEqualsTopLevel ==
    (pc = "parsed" /\ NoTag(hist, "img") /\ WellFormedBlocks(hist))
        => Count(body, IsParagraphOrHeading) = TopLevelBlocks(hist)

\* C2, amended: for an input with no img and no br whose p, div and h1..h6
\* elements follow one another, none inside another and each closed by its
\* own end tag, the body holds at every point of the pass as many
\* Paragraph/Heading nodes as elements whose end tag has been handled.
C2_CountEqualsClosedFlatBlocks ==
    (NoTag(Handled, "img") /\ NoTag(Handled, "br") /\ FlatBlocks(Handled))
        => Count(body, IsParagraphOrHeading) = Count(Handled, IsBlockEnd)

\* C2 witness: <p>x</p><h2>x</h2> has been read, "x" after it is pending.
C2_Witness ==
    /\ pc = "feed"
    /\ Handled = <<StartTag("p", NoAttrs), Text(<<"x">>), EndTag("p"),
                   StartTag("h2", NoAttrs), Text(<<"x">>)>>
    /\ Len(body) = 1

\* C8, as stated: no handler raises, whatever the events.
C8_NoHandlerRaises == pc # "raised"

(***************************************************************************)
(* Claims on SpecStyles                                                    *)
(***************************************************************************)
\* The last event of the input is a Text event with content, and handled.
LastHandledIsText == handled > 0 /\ handled = Len(hist) /\ IsText(hist[handled])

\* The run that event became: the last child of the paragraph under
\* construction (a Text event leaves the style stack as it found it).
LastRun == current_para.childNodes[Len(current_para.childNodes)]

\* The style a run carries and the text in it
RunStyle(node) == IF node.nodeType = "text" THEN <<"plain">> ELSE node.stylename

RunData(node) == IF node.nodeType = "text" THEN node.data ELSE node.childNodes[1].data

\* The document style a stack entry names: Bold, Italic, Highlight<colour>
StyleNamed(entry) ==
    CASE entry = <<"bold">>      -> <<"Bold">>
      [] entry = <<"italic">>    -> <<"Italic">>
      [] entry[1] = "highlight-" -> <<"Highlight">> \o SubSeq(entry, 2, Len(entry))

TopStyle == IF style_stack = <<>> THEN <<"plain">> ELSE StyleNamed(style_stack[Len(style_stack)])

Lower(name) ==
    [i \in DOMAIN name |->
        CASE name[i] = "Yellow" -> "yellow" [] name[i] = "Green" -> "green"
          [] name[i] = "Blue" -> "blue" [] name[i] = "Gray" -> "gray"
          [] name[i] = "Orange" -> "orange" [] name[i] = "Purple" -> "purple"
          [] OTHER -> name[i]]

TableColors == {"yellow", "green", "blue", "gray", "orange", "purple"}

\* What is left of a stack entry with every "highlight-" removed from it
ColourLeft(entry) == SelectSeq(entry, LAMBDA t : t # "highlight-")

\* The style the top of the stack gives a run: plain for the empty stack
\* and for a highlight whose colour is not in the table
StyleOfTop ==
    IF style_stack = <<>> THEN <<"plain">>
    ELSE IF style_stack[Len(style_stack)][1] # "highlight-"
         THEN StyleNamed(style_stack[Len(style_stack)])
    ELSE IF Len(ColourLeft(style_stack[Len(style_stack)])) = 1
            /\ ColourLeft(style_stack[Len(style_stack)])[1] \in TableColors
         THEN <<"Highlight">> \o ColourLeft(style_stack[Len(style_stack)])
    ELSE <<"plain">>

StrongSpanText == <<StartTag("strong", NoAttrs), SpanYellow, Text(<<"x">>)>>

StrongSpanTextEndText == StrongSpanText \o <<EndTag("span"), Text(<<"x">>)>>

\* C3, as stated: the style of every text run is exactly the top of the
\* style stack at the moment its Text event is handled, plain when the stack
\* is empty.
C3_RunStyleIsTopOfStack == LastHandledIsText => Lower(RunStyle(LastRun)) = TopStyle

\* C3, amended: the style of a text run is decided by the top of the style
\* stack alone at the moment its Text event is handled: bold or italic for
\* such a top; for a top highlight-<c> the highlight of the colour left of c
\* when every "highlight-" is removed from it, if that is one of yellow,
\* green, blue, gray, orange, purple, and plain otherwise; plain when the
\* stack is empty.  Styles never compose: the text inside
\* <strong><span class="text-highlight hl-yellow"> is highlight-yellow, and
\* the text after the inner end tag is bold again.
C3_RunStyleIsTopOrPlain ==
    /\ LastHandledIsText =>
          /\ RunData(LastRun) = hist[handled].data
          /\ Lower(RunStyle(LastRun)) = StyleOfTop
    /\ (hist = StrongSpanText /\ handled = 3) =>
          RunStyle(LastRun) = <<"Highlight", "Yellow">>
    /\ (hist = StrongSpanTextEndText /\ handled = 5) =>
          RunStyle(LastRun) = <<"Bold">>

\* C3 witness: <strong><span class="text-highlight hl-yellow">x</span>x has
\* been handled, a highlighted run and a bold run are in the paragraph.
C3_Witness ==
    /\ hist = StrongSpanTextEndText
    /\ handled = 5
    /\ Len(current_para.childNodes) = 2
    /\ style_stack = <<<<"bold">>>>

StyleTags == {"strong", "b", "em", "i", "span", "mark"}

\* The input is start and end tags of style elements only, well nested, and
\* at its end.
BalancedStyles(events) ==
    /\ events # <<>>
    /\ \A i \in DOMAIN events : events[i].type # "data" /\ events[i].tag \in StyleTags
    /\ Nested(events, 1, <<>>, StyleTags, TRUE)

\* C4, as stated: from an empty stack, a perfectly balanced sequence of
\* style start and end tags leaves the style stack empty at its end.
C4_BalancedLeavesStackEmpty == BalancedStyles(hist) => style_stack = <<>>

\* C4 where every handler returned: the stack is empty at the end of a
\* balanced sequence all of whose events were handled.
C4_BalancedHandledLeavesStackEmpty ==
    (BalancedStyles(hist) /\ handled = Len(hist)) => style_stack = <<>>

(***************************************************************************)
(* Claims on SpecImages                                                    *)
(***************************************************************************)
HasFrame(node) == \E i \in DOMAIN node.childNodes : node.childNodes[i].qname = "frame"

\* The ImageFrame nodes of a body
Frames(nodes) == Count(nodes, HasFrame)

\* parser.feed hands the handlers one more event, ev.
Feeds(ev) == pc = "feed" /\ hist' = Append(hist, ev)

IsExternalImg(ev) == IsStart(ev, "img") /\ ev.attrs["src"].scheme \in {"http", "https"}

\* The path of the src starts with the served-image prefix /images/.
IsServedPath(ev) ==
    /\ Len(ev.attrs["src"].path) >= 3
    /\ ev.attrs["src"].path[1] = ""
    /\ ev.attrs["src"].path[2] = "images"

\* C6, as stated: an img whose src has scheme http or https, whatever its
\* host and path, appends no ImageFrame to the body and raises nothing.
C6_ExternalNeverEmbedded ==
    [][\A ev \in ImageEvents :
          (Feeds(ev) /\ IsExternalImg(ev))
              => (Frames(body') = Frames(body) /\ pc' = "feed")]_vars

\* C6, amended: an img whose src has scheme http or https and a path that
\* does not start with /images/ appends no ImageFrame to the body and raises
\* nothing.
C6_ExternalOutsideImagesNeverEmbedded ==
    [][\A ev \in ImageEvents :
          (Feeds(ev) /\ IsExternalImg(ev) /\ ~IsServedPath(ev))
              => (Frames(body') = Frames(body) /\ pc' = "feed"
                    /\ handled' = handled + 1)]_vars

\* C6 witness: <p>x<img src="https://example.com/a.png"> has been handled,
\* the paragraph is in the body and no frame is.
C6_Witness ==
    /\ hist = <<StartTag("p", NoAttrs), Text(<<"x">>), ImgExternalA>>
    /\ handled = 3
    /\ Len(body) = 1
    /\ Frames(body) = 0

\* The img events whose file is missing (missing.png) or corrupt (bad.png)
FailingImgs == {ImgMissing, ImgCorrupt}

\* C7: an img whose file is missing, corrupt or unreadable appends no
\* ImageFrame, its handler returns, and it leaves the converter as a skipped
\* image does: the style stack and the image counter as they were, the body
\* as it was but for the paragraph under construction, now closed, and a new
\* paragraph begun.
C7_FailedImageIsSkipped ==
    [][\A ev \in FailingImgs :
          Feeds(ev) =>
              /\ pc' = "feed"
              /\ handled' = handled + 1
              /\ Frames(body') = Frames(body)
              /\ body' = IF current_para = None THEN body ELSE Append(body, current_para)
              /\ style_stack' = style_stack
              /\ image_counter' = image_counter
              /\ current_para' = P]_vars

\* C7 witness: <b>x<img src="/images/bad.png">x has been handled: the text
\* before the image is in the body, the text after it is a bold run of the
\* paragraph under construction.
C7_Witness ==
    /\ hist = <<StartTag("b", NoAttrs), Text(<<"x">>), ImgCorrupt, Text(<<"x">>)>>
    /\ handled = 4
    /\ pc = "feed"
    /\ Len(body) = 1
    /\ Frames(body) = 0
    /\ current_para.childNodes = <<Span(<<"Bold">>, <<"x">>)>>

(***************************************************************************)
(* SpecSize: lines 315-330 of add_image on an opened image of              *)
(* width_px x height_px pixels.                                            *)
(***************************************************************************)
MaxSide == 12

Widths == (1 .. MaxSide) \cup {95, 96, 480, 575, 576, 577, 1000, 1200, 4000}

Heights == (1 .. MaxSide) \cup {320, 333, 800, 3000}

InitImageOpen ==
    /\ InitAlone
    /\ pc = "open"
    /\ InitParser
    /\ InitIO
    /\ width_px \in Widths
    /\ height_px \in Heights
    /\ size = NoSize

\* width_in, height_in of lines 323-330
ComputeSize ==
    /\ pc = "open"
    /\ size' = PrintSize(width_px, height_px)
    /\ pc' = "sized"
    /\ UNCHANGED <<hist, handled, parserVars, ioVars, width_px, height_px, conversions>>

NextSize == ComputeSize

SpecSize == InitImageOpen /\ [][NextSize]_vars

(***************************************************************************)
(* Claims on SpecSize.  A float is the number m * 2^e; the products below  *)
(* are exact.                                                              *)
(***************************************************************************)
\* x * k for a float x and a natural k, exactly
TimesInt(x, k) == [m |-> BigMul(x.m, BigOf(k)), e |-> x.e]

\* <<a, b>> scaled to integers by one same power of two
Aligned(a, b) ==
    IF a.e >= b.e THEN <<BigShl(a.m, a.e - b.e), b.m>>
                  ELSE <<a.m, BigShl(b.m, b.e - a.e)>>

BigAbsDiff(p) == IF BigCmp(p[1], p[2]) >= 0 THEN BigSub(p[1], p[2]) ELSE BigSub(p[2], p[1])

\* |a - b| <= a / 2^k
WithinRel(a, b, k) ==
    LET Close(p) == BigCmp(BigShl(BigAbsDiff(p), k), p[1]) <= 0
    IN  CHOOSE r \in {Close(v) : v \in {Aligned(a, b)}} : TRUE

Six == FloatOfInt(max_width_in)

\* C5, as stated, its aspect-ratio part: width_in * h = height_in * w,
\* exactly or at least as the two floating-point products compare.
C5_AspectRatioExact ==
    pc = "sized" =>
        \/ DyCmp(TimesInt(size.width_in, height_px), TimesInt(size.height_in, width_px)) = 0
        \/ FloatMul(size.width_in, FloatOfInt(height_px))
              = FloatMul(size.height_in, FloatOfInt(width_px))

\* C5, amended: for an image of w x h pixels, w, h >= 1, dpi 96 and max
\* width 6.0, width_in = min(w / 96, 6.0) and never exceeds 6.0; the aspect
\* ratio is preserved up to floating-point rounding,
\* |width_in * h - height_in * w| <= width_in * h / 2^50; with w <= 576 the
\* image is unscaled, width_in = w / 96 and height_in = h / 96.  1200 x 800
\* gives 6.0 x 4.0, and 480 x 320 gives 5.0 x 3.3333333333333335 (10 / 3).
C5_SizeWithinWidthRatioRounded ==
    pc = "sized" =>
        /\ ~FloatGt(size.width_in, Six)
        /\ size.width_in =
              IF FloatGt(IntTrueDiv(width_px, dpi), Six)
              THEN Six ELSE IntTrueDiv(width_px, dpi)
        /\ (width_px > max_width_in * dpi) => size.width_in = Six
        /\ WithinRel(TimesInt(size.width_in, height_px),
                     TimesInt(size.height_in, width_px), 50)
        /\ (width_px <= max_width_in * dpi) =>
              /\ size.width_in = IntTrueDiv(width_px, dpi)
              /\ size.height_in = IntTrueDiv(height_px, dpi)
        /\ (width_px = 1200 /\ height_px = 800) =>
              size = [width_in |-> FloatOfInt(6), height_in |-> FloatOfInt(4)]
        /\ (width_px = 480 /\ height_px = 320) =>
              size = [width_in |-> FloatOfInt(5), height_in |-> IntTrueDiv(10, 3)]

\* C5 witness: the size of a 1200 x 800 image has been computed, scaled to
\* a width of 6.0.
C5_Witness ==
    /\ pc = "sized"
    /\ width_px = 1200
    /\ height_px = 800
    /\ size.width_in = Six
    /\ size.height_in = FloatOfInt(4)

(***************************************************************************)
(* import_odt: extract_text_from_elements, lines 461-490.  The result is   *)
(* the text and the exception that ended the extraction ("" when none).    *)
(***************************************************************************)
\* "".join([node.data for node in element.childNodes if hasattr(node, 'data')])
RECURSIVE JoinData(_)
JoinData(nodes) ==
    IF nodes = <<>> THEN <<>>
    ELSE (IF Head(nodes).nodeType = "text" THEN Head(nodes).data ELSE <<>>)
            \o JoinData(Tail(nodes))

\* c * n
Repeat(c, n) == [i \in 1 .. n |-> c]

\* int(outline_level) if outline_level else 1
OutlineLevel(element) ==
    IF element.outlinelevel # <<>> THEN StrToInt(element.outlinelevel) ELSE 1

\* Mutant: the space after the '#' characters is left out.
HeadingLineNoSpace(element) ==
    Repeat("#", OutlineLevel(element)) \o JoinData(element.childNodes) \o <<"\n">>

\* Lines 471-474
HeadingLine(element) ==
    Repeat("#", OutlineLevel(element)) \o <<" ">> \o JoinData(element.childNodes)
        \o <<"\n">>

\* "\n| Table |\n| --- |\n\n"
TableLines ==
    <<"\n", "|", " ", "T", "a", "b", "l", "e", " ", "|", "\n",
      "|", " ", "-", "-", "-", " ", "|", "\n", "\n">>

RECURSIVE extract_text_from_elements(_, _)
RECURSIVE ExtractFrom(_, _, _, _)
\* The for loop from the i-th element on, `result` being the text so far
ExtractFrom(elements, i, level, result) ==
    IF i > Len(elements) THEN [result |-> result, exc |-> ""]
    ELSE IF elements[i].nodeType = "text"
         THEN [result |-> result, exc |-> "AttributeError"]  \* a Text has no qname
    ELSE IF elements[i].qname = "p"
         THEN ExtractFrom(elements, i + 1, level,
                          result \o JoinData(elements[i].childNodes) \o <<"\n">>)
    ELSE IF elements[i].qname = "h"
         THEN ExtractFrom(elements, i + 1, level, result \o HeadingLine(elements[i]))
    ELSE IF elements[i].qname = "span"
         THEN ExtractFrom(elements, i + 1, level, result \o JoinData(elements[i].childNodes))
    ELSE IF elements[i].qname = "list"
         \* getElementsByType is handed a tuple where it calls an element class
         THEN [result |-> result, exc |-> "TypeError"]
    ELSE IF elements[i].qname = "table"
         THEN ExtractFrom(elements, i + 1, level, result \o TableLines)
    ELSE LET Rest(inner) ==
                IF inner.exc # "" THEN [result |-> result, exc |-> inner.exc]
                ELSE ExtractFrom(elements, i + 1, level, result \o inner.result)
         IN  CHOOSE r \in {Rest(v) :
                    v \in {extract_text_from_elements(elements[i].childNodes, level)}} : TRUE

\* Mutant: result is not emptied at the start of a call, it goes on from the
\* text of the request before.
ExtractAccumulating(elements, level) == ExtractFrom(elements, 1, level, markdown_content)

\* Line 463: result = "", then the loop
extract_text_from_elements(elements, level) == ExtractFrom(elements, 1, level, <<>>)

(***************************************************************************)
(* A conversion of a given input: parser.feed(html_content), one event at  *)
(* a time.                                                                 *)
(***************************************************************************)
FeedInput ==
    /\ pc = "feed"
    /\ input # <<>>
    /\ FeedEvent(Head(input))
    /\ input' = Tail(input)
    /\ UNCHANGED <<odt_path, tmp_path, tmpfile, response, upload, markdown_content,
                   sizeVars, conversions>>

FeedDone ==
    /\ pc = "feed"
    /\ input = <<>>
    /\ pc' = "parsed"
    /\ UNCHANGED <<hist, handled, parserVars, ioVars, sizeVars, conversions>>

(***************************************************************************)
(* SpecRoundTrip: <hn>t</hn> converted, then the body extracted.           *)
(***************************************************************************)
MaxTitleLen == 2

TitleChars == {"T", "e", " "}

\* The texts with content, of up to MaxTitleLen characters, and "Title"
Titles ==
    {<<"T", "i", "t", "l", "e">>} \cup
    {t \in UNION {[1 .. n -> TitleChars] : n \in 1 .. MaxTitleLen} :
        \E i \in DOMAIN t : ~IsSpace(t[i])}

HeadingTag(n) == <<"h1", "h2", "h3", "h4", "h5", "h6">>[n]

HeadingInputs ==
    {<<StartTag(HeadingTag(n), NoAttrs), Text(t), EndTag(HeadingTag(n))>> :
        n \in 1 .. 6, t \in Titles}

InitRoundTrip ==
    /\ InitAlone
    /\ pc = "feed"
    /\ InitParser
    /\ InitSize
    /\ input \in HeadingInputs
    /\ odt_path = FALSE
    /\ tmp_path = FALSE
    /\ tmpfile = "none"
    /\ response = 0
    /\ upload = <<>>
    /\ markdown_content = <<>>

\* Lines 494-496 on the body the conversion built
ExtractBody ==
    /\ pc = "parsed"
    /\ \E r \in {extract_text_from_elements(body, 0)} :
          IF r.exc # ""
          THEN pc' = "raised" /\ markdown_content' = markdown_content
          ELSE pc' = "extracted" /\ markdown_content' = r.result
    /\ UNCHANGED <<hist, handled, parserVars, input, odt_path, tmp_path, tmpfile,
                   response, upload, sizeVars, conversions>>

NextRoundTrip == FeedInput \/ FeedDone \/ ExtractBody

SpecRoundTrip == InitRoundTrip /\ [][NextRoundTrip]_vars

(***************************************************************************)
(* Claims on SpecRoundTrip                                                 *)
(***************************************************************************)
\* The level n of the heading tag hn
LevelOfTag(tag) == CHOOSE n \in 1 .. 6 : HeadingTag(n) = tag

\* C10: for n in 1..6 and a plain text t with content, <hn>t</hn> converted
\* and the body extracted gives n '#' characters, one space, t and a
\* newline; <h2>Title</h2> gives "## Title\n".
C10_HeadingRoundTrip ==
    /\ pc # "raised"
    /\ pc = "extracted" =>
          /\ markdown_content =
                Repeat("#", LevelOfTag(hist[1].tag)) \o <<" ">> \o hist[2].data \o <<"\n">>
          /\ (hist[1].tag = "h2" /\ hist[2].data = <<"T", "i", "t", "l", "e">>) =>
                markdown_content = <<"#", "#", " ", "T", "i", "t", "l", "e", "\n">>

\* C10 witness: <h2>Title</h2> has been converted and extracted.
C10_Witness ==
    /\ pc = "extracted"
    /\ hist = <<StartTag("h2", NoAttrs), Text(<<"T", "i", "t", "l", "e">>), EndTag("h2")>>
    /\ markdown_content = <<"#", "#", " ", "T", "i", "t", "l", "e", "\n">>

(***************************************************************************)
(* SpecIO: download_odt from parser.feed to the response (lines 392-429)   *)
(* and import_odt (lines 449-514), with the temporary file of each.  A     *)
(* library call either returns or raises; "raised" is control on its way   *)
(* to the except clause of the route.                                      *)
(***************************************************************************)
DownloadInputs ==
    {<<>>,
     <<Text(<<"x">>)>>,
     <<StartTag("p", NoAttrs), Text(<<"x">>), EndTag("p")>>,
     <<StartTag("h2", NoAttrs), Text(<<"x">>), EndTag("h2")>>,
     <<StartTag("p", NoAttrs), ImgServed, EndTag("p")>>,
     <<StartTag("p", NoAttrs), SpanClassNone, Text(<<"x">>), EndTag("span"), EndTag("p")>>,
     <<StartTag("strong", NoAttrs), Text(<<"x">>), EndTag("strong"), StartTag("br", NoAttrs)>>}

\* The children of the body of the uploaded document
Uploads ==
    {<<>>,
     <<AddChild(P, TextNode(<<"x">>))>>,
     <<AddChild(H(2), TextNode(<<"x">>))>>,
     <<AddChild(P, Span(<<"Bold">>, <<"x">>)), AddChild(P, TextNode(<<"x">>))>>,
     <<TextNode(<<"x">>)>>,
     <<Element("list", <<Element("list-item", <<AddChild(P, TextNode(<<"x">>))>>)>>)>>,
     <<Element("table", <<>>)>>}

InitRequest ==
    /\ InitAlone
    /\ InitParser
    /\ InitSize
    /\ odt_path = FALSE
    /\ tmp_path = FALSE
    /\ tmpfile = "none"
    /\ response = 0
    /\ markdown_content = <<>>
    /\ \/ pc = "feed" /\ input \in DownloadInputs /\ upload = <<>>
       \/ pc = "import" /\ input = <<>> /\ upload \in Uploads

\* Lines 396-397: NamedTemporaryFile creates the file, odt_path is bound.
CreateOdtTemp ==
    /\ pc = "parsed"
    /\ \E ok \in BOOLEAN :
          IF ok THEN pc' = "save" /\ tmpfile' = "exists" /\ odt_path' = TRUE
                ELSE pc' = "raised" /\ UNCHANGED <<tmpfile, odt_path>>
    /\ UNCHANGED <<hist, handled, parserVars, input, tmp_path, response, upload,
                   markdown_content, sizeVars, conversions>>

\* Line 399: doc.save(odt_path)
SaveDocument ==
    /\ pc = "save"
    /\ \E ok \in BOOLEAN : pc' = IF ok THEN "send" ELSE "raised"
    /\ UNCHANGED <<hist, handled, parserVars, ioVars, sizeVars, conversions>>

\* Lines 406-421: send_file, cleanup registered, the response returned
SendFile ==
    /\ pc = "send"
    /\ \E ok \in BOOLEAN :
          IF ok THEN pc' = "returned" /\ response' = 200
                ELSE pc' = "raised" /\ response' = response
    /\ UNCHANGED <<hist, handled, parserVars, input, odt_path, tmp_path, tmpfile,
                   upload, markdown_content, sizeVars, conversions>>

\* Lines 414-419: the server closes the response, cleanup unlinks odt_path.
CloseResponse ==
    /\ pc = "returned"
    /\ pc' = "closed"
    /\ tmpfile' = "deleted"
    /\ UNCHANGED <<hist, handled, parserVars, input, odt_path, tmp_path, response,
                   upload, markdown_content, sizeVars, conversions>>

\* Mutant: the except clause returns the failure without the unlink.
ExceptKeepsFile(bound, file) == file

\* Lines 424-428: 'odt_path' in locals() and os.path.exists(odt_path)
DownloadExceptUnlinked(bound, file) ==
    IF bound /\ file = "exists" THEN "deleted" ELSE file

DownloadExcept ==
    /\ pc = "raised"
    /\ pc' = "failing"
    /\ tmpfile' = DownloadExceptUnlinked(odt_path, tmpfile)
    /\ UNCHANGED <<hist, handled, parserVars, input, odt_path, tmp_path, response,
                   upload, markdown_content, sizeVars, conversions>>

\* Lines 429 and 514: the failure response
ReturnFailure ==
    /\ pc = "failing"
    /\ pc' = "failed"
    /\ response' = 500
    /\ UNCHANGED <<hist, handled, parserVars, input, odt_path, tmp_path, tmpfile,
                   upload, markdown_content, sizeVars, conversions>>

\* Lines 451-452: NamedTemporaryFile creates the file, tmp_path is bound.
CreateImportTemp ==
    /\ pc = "import"
    /\ \E ok \in BOOLEAN :
          IF ok THEN pc' = "upload_save" /\ tmpfile' = "exists" /\ tmp_path' = TRUE
                ELSE pc' = "import_raised" /\ UNCHANGED <<tmpfile, tmp_path>>
    /\ UNCHANGED <<hist, handled, parserVars, input, odt_path, response, upload,
                   markdown_content, sizeVars, conversions>>

\* Line 453: file.save(tmp_path)
SaveUpload ==
    /\ pc = "upload_save"
    /\ \E ok \in BOOLEAN : pc' = IF ok THEN "load" ELSE "import_raised"
    /\ UNCHANGED <<hist, handled, parserVars, ioVars, sizeVars, conversions>>

\* Line 456: load(tmp_path)
LoadDocument ==
    /\ pc = "load"
    /\ \E ok \in BOOLEAN : pc' = IF ok THEN "extract" ELSE "import_raised"
    /\ UNCHANGED <<hist, handled, parserVars, ioVars, sizeVars, conversions>>

\* Lines 493-496
ExtractUpload ==
    /\ pc = "extract"
    /\ \E r \in {extract_text_from_elements(upload, 0)} :
          IF r.exc # ""
          THEN pc' = "import_raised" /\ markdown_content' = markdown_content
          ELSE pc' = "unlink" /\ markdown_content' = r.result
    /\ UNCHANGED <<hist, handled, parserVars, input, odt_path, tmp_path, tmpfile,
                   response, upload, sizeVars, conversions>>

\* Lines 498-502: os.unlink(tmp_path)
UnlinkUpload ==
    /\ pc = "unlink"
    /\ pc' = "respond"
    /\ tmpfile' = "deleted"
    /\ UNCHANGED <<hist, handled, parserVars, input, odt_path, tmp_path, response,
                   upload, markdown_content, sizeVars, conversions>>

\* Lines 504-508
ReturnContent ==
    /\ pc = "respond"
    /\ pc' = "imported"
    /\ response' = 200
    /\ UNCHANGED <<hist, handled, parserVars, input, odt_path, tmp_path, tmpfile,
                   upload, markdown_content, sizeVars, conversions>>

\* Lines 510-513: os.unlink(tmp_path); an unbound tmp_path raises inside the
\* try, which swallows it.
ImportExceptUnlinked(bound, file) ==
    IF bound /\ file = "exists" THEN "deleted" ELSE file

ImportExcept ==
    /\ pc = "import_raised"
    /\ pc' = "failing"
    /\ tmpfile' = ImportExceptUnlinked(tmp_path, tmpfile)
    /\ UNCHANGED <<hist, handled, parserVars, input, odt_path, tmp_path, response,
                   upload, markdown_content, sizeVars, conversions>>

NextIO ==
    \/ FeedInput \/ FeedDone \/ CreateOdtTemp \/ SaveDocument \/ SendFile
    \/ CloseResponse \/ DownloadExcept \/ ReturnFailure
    \/ CreateImportTemp \/ SaveUpload \/ LoadDocument \/ ExtractUpload
    \/ UnlinkUpload \/ ReturnContent \/ ImportExcept

\* The route runs to its return, and the server closes what it was handed.
SpecIO == InitRequest /\ [][NextIO]_vars /\ WF_vars(NextIO)

MaxDepth == 4

Para(data) == AddChild(P, TextNode(data))

Table(kids) == Element("table", kids)

Leaves ==
    {TextNode(<<"t">>), Table(<<>>), Para(<<"a">>),
     Table(<<Element("table-row", <<Element("table-cell", <<Para(<<"c">>)>>)>>)>>)}

\* One leaf, or the paragraph a and one leaf after it
LeafSeqs ==
    {s \in UNION {[1 .. n -> Leaves] : n \in 1 .. 2} : Len(s) = 1 \/ s[1] = Para(<<"a">>)}

Containers == {"section", "list", "list-item"}

Prefixes == {<<>>, <<Para(<<"b">>)>>}

RECURSIVE TreesOfDepth(_)
TreesOfDepth(d) ==
    IF d = 0 THEN LeafSeqs
    ELSE TreesOfDepth(d - 1) \cup
         {pre \o <<Element(q, kids)>> :
            q \in Containers, pre \in Prefixes, kids \in TreesOfDepth(d - 1)}

\* body.childNodes of the documents loaded
Trees == TreesOfDepth(MaxDepth)

InitLoaded ==
    /\ pc = "loaded"
    /\ InitParser
    /\ InitSize
    /\ InitAlone
    /\ input = <<>>
    /\ odt_path = FALSE
    /\ tmp_path = FALSE
    /\ tmpfile = "none"
    /\ response = 0
    /\ upload \in Trees
    /\ markdown_content = <<>>

\* Lines 459-496: markdown_content = "", then the extraction of the body
ExtractTree ==
    /\ pc = "loaded"
    /\ \E r \in {extract_text_from_elements(upload, 0)} :
          IF r.exc # ""
          THEN pc' = "raised" /\ markdown_content' = <<>>
          ELSE pc' = "extracted" /\ markdown_content' = r.result
    /\ UNCHANGED <<hist, handled, parserVars, input, odt_path, tmp_path, tmpfile,
                   response, upload, sizeVars, conversions>>

\* The same document sent again: the second request does the same.
ExtractAgain ==
    /\ pc \in {"extracted", "raised"}
    /\ \E r \in {extract_text_from_elements(upload, 0)} :
          IF r.exc # ""
          THEN pc' = "raised again" /\ markdown_content' = <<>>
          ELSE pc' = "extracted again" /\ markdown_content' = r.result
    /\ UNCHANGED <<hist, handled, parserVars, input, odt_path, tmp_path, tmpfile,
                   response, upload, sizeVars, conversions>>

NextReverse == ExtractTree \/ ExtractAgain

SpecReverse == InitLoaded /\ [][NextReverse]_vars

(***************************************************************************)
(* Claims on SpecReverse                                                   *)
(***************************************************************************)
Extracted == pc \in {"extracted", "extracted again"}

Raised == pc \in {"raised", "raised again"}

\* The nodes named q in the trees of `elements`
RECURSIVE NodesNamed(_, _)
NodesNamed(elements, q) ==
    IF elements = <<>> THEN 0
    ELSE (IF Head(elements).qname = q THEN 1 ELSE 0)
         + NodesNamed(Head(elements).childNodes, q)
         + NodesNamed(Tail(elements), q)

\* A text node that is no child of a paragraph, a heading, a span or a table
RECURSIVE HasBareText(_)
HasBareText(elements) ==
    \E i \in DOMAIN elements :
        \/ elements[i].nodeType = "text"
        \/ /\ elements[i].qname \notin {"p", "h", "span", "table"}
           /\ HasBareText(elements[i].childNodes)

\* How many times pat occurs in s
Occurrences(s, pat) ==
    Cardinality({i \in 1 .. Len(s) - Len(pat) + 1 : SubSeq(s, i, i + Len(pat) - 1) = pat})

\* The tables the extractor is to report: those outside every table
RECURSIVE Tables(_)
Tables(elements) ==
    IF elements = <<>> THEN 0
    ELSE (IF Head(elements).qname = "table" THEN 1
          ELSE Tables(Head(elements).childNodes))
         + Tables(Tail(elements))

\* C11: a document with tables at the top level, in containers or in list
\* items (and no bare text node) is extracted, and its output holds the
\* literal "\n| Table |\n| --- |\n\n" once per table.
C11_TableLiteralEverywhere ==
    (pc # "loaded" /\ Tables(upload) > 0 /\ ~HasBareText(upload)) =>
        Extracted /\ Occurrences(markdown_content, TableLines) = Tables(upload)

(***************************************************************************)
(* SpecConcurrent: two requests of download_odt served at the same time,   *)
(* the calls of their handlers interleaved.  doc, the styles and the       *)
(* parser are locals of the request (lines 192-392); the handlers assign   *)
(* to attributes of self and add to self.doc.text only.  hist is the       *)
(* order in which the handlers ran.                                        *)
(***************************************************************************)
Requests == {1, 2}

ConcurrentInputs ==
    {<<StartTag("strong", NoAttrs), Text(<<"x">>), EndTag("strong")>>,
     <<StartTag("p", NoAttrs), Text(<<"y">>), EndTag("p")>>,
     <<MarkYellow, Text(<<"z">>), StartTag("br", NoAttrs)>>,
     <<ImgServed, Text(<<"x">>), EndTag("p")>>,
     <<StartTag("em", NoAttrs), SpanClassNone, Text(<<"x">>)>>}

\* Lines 192-392: the request's own document and parser, before parser.feed
NewConversion(html_content) ==
    [parser |-> NewParser, html_content |-> html_content, unread |-> html_content,
     at |-> "feed"]

\* Mutant: style_stack is one list that every parser appends to and pops.
HandledByShared(c, i, S) ==
    [j \in DOMAIN c |->
        IF j = i
        THEN [c[j] EXCEPT !.parser = S, !.unread = Tail(@),
                          !.at = IF S.exc # "" THEN "raised" ELSE @]
        ELSE [c[j] EXCEPT !.parser.style_stack = S.style_stack]]

\* The handler of request i has returned (or raised) with the parser as S.
HandledBy(c, i, S) ==
    [c EXCEPT ![i].parser = S, ![i].unread = Tail(@),
              ![i].at = IF S.exc # "" THEN "raised" ELSE @]

InitConcurrent ==
    /\ pc = "serving"
    /\ InitParser
    /\ InitIO
    /\ InitSize
    /\ conversions \in [Requests -> {NewConversion(h) : h \in ConcurrentInputs}]

\* parser.feed of request i calls the handler of its next event
FeedConversion(i) ==
    /\ conversions[i].at = "feed"
    /\ conversions[i].unread # <<>>
    /\ conversions' =
          HandledBy(conversions, i,
                    Handle(conversions[i].parser, Head(conversions[i].unread)))
    /\ hist' = Append(hist, i)
    /\ UNCHANGED <<pc, handled, parserVars, ioVars, sizeVars>>

\* parser.feed of request i returns
ConversionDone(i) ==
    /\ conversions[i].at = "feed"
    /\ conversions[i].unread = <<>>
    /\ conversions' = [conversions EXCEPT ![i].at = "parsed"]
    /\ UNCHANGED <<pc, hist, handled, parserVars, ioVars, sizeVars>>

NextConcurrent == \E i \in Requests : FeedConversion(i) \/ ConversionDone(i)

SpecConcurrent == InitConcurrent /\ [][NextConcurrent]_vars

(***************************************************************************)
(* Claims on SpecConcurrent                                                *)
(***************************************************************************)
\* parser.feed(events) of a request that runs alone, from the parser S
RECURSIVE RunAlone(_, _)
RunAlone(S, events) ==
    IF events = <<>> \/ S.exc # "" THEN S
    ELSE RunAlone(Handle(S, Head(events)), Tail(events))

\* The events of request i that its handlers were called with
Consumed(i) ==
    SubSeq(conversions[i].html_content, 1,
           Len(conversions[i].html_content) - Len(conversions[i].unread))

\* C12: whatever the interleaving of the handlers of two requests, the
\* parser of each request (style stack, current block, body, counter) is at
\* every moment, and so at its end, the one the request has when it runs
\* alone on the same input.
C12_ConcurrentAsAlone ==
    \A i \in Requests :
        /\ conversions[i].parser = RunAlone(NewParser, Consumed(i))
        /\ conversions[i].at \in {"parsed", "raised"} =>
              conversions[i].parser = RunAlone(NewParser, conversions[i].html_content)

\* C12 witness: both requests have finished, on different inputs, after
\* their handlers ran in turn: 1, 2, 1, 2, ..
C12_Witness ==
    /\ \A i \in Requests : conversions[i].at = "parsed"
    /\ conversions[1].parser # conversions[2].parser
    /\ conversions[1].parser.body # <<>>
    /\ conversions[2].parser.style_stack # <<>>
    /\ Len(hist) = 6
    /\ \A k \in 1 .. 6 : hist[k] = 2 - (k % 2)

StackAfter(events) == RunAlone(NewParser, events).style_stack

\* A span start tag that pushes nothing: no text-highlight class, or no colour
\* of the table with it
IsIncidentalSpan(ev) ==
    /\ ev.type = "start"
    /\ ev.tag = "span"
    /\ ~ev.attrs["class"].isNone
    /\ \/ <<"text-highlight">> \notin AttrGet(ev.attrs, "class").contains
       \/ SpanColor(AttrGet(ev.attrs, "class"), 1) = <<>>

\* C14: when a span that pushed nothing is closed right after its start tag,
\* the stack is what it was before the start tag, whatever is on it (also a
\* highlight entry of an enclosing span or mark).
C14_IncidentalSpanLeavesStack ==
    \A k \in 1 .. handled - 1 :
        (IsIncidentalSpan(hist[k]) /\ hist[k + 1] = EndTag("span")) =>
            StackAfter(SubSeq(hist, 1, k + 1)) = StackAfter(SubSeq(hist, 1, k - 1))

(***************************************************************************)
(* More claims on Spec                                                     *)
(***************************************************************************)
Br == StartTag("br", NoAttrs)

\* C15, as stated: a br appends the paragraph under construction to the body
\* when there is one and appends nothing when there is none; the current
\* block is then a new empty paragraph.
C15_BreakAddsOpenBlockOnly ==
    [][Feeds(Br) =>
          /\ body' = IF current_para = None THEN body ELSE Append(body, current_para)
          /\ current_para' = P]_vars

\* C15, amended: a br appends one node to the body, the paragraph or heading
\* under construction when there is one and a new empty paragraph when there
\* is none; the current block is then a new empty paragraph, the style stack
\* is as it was and nothing is raised.
C15_BreakAddsBlockOrEmptyParagraph ==
    [][Feeds(Br) =>
          /\ body' = Append(body, IF current_para = None THEN P ELSE current_para)
          /\ current_para' = P
          /\ style_stack' = style_stack
          /\ pc' = "feed"
          /\ handled' = handled + 1]_vars

\* C15 witness: <br><p>x<br> has been handled: the body holds an empty
\* paragraph for the first br and the paragraph of x for the second.
C15_Witness ==
    /\ hist = <<Br, StartTag("p", NoAttrs), Text(<<"x">>), Br>>
    /\ handled = 4
    /\ body = <<P, Para(<<"x">>)>>
    /\ current_para = P

(***************************************************************************)
(* More claims on SpecImages                                               *)
(***************************************************************************)
\* The body once the paragraph under construction, if any, has joined it
Flushed == IF current_para = None THEN body ELSE Append(body, current_para)

\* The body has become `Flushed`, or `Flushed` and one node with a frame.
FlushedThenOneFrameAtMost ==
    /\ Len(body') \in {Len(Flushed), Len(Flushed) + 1}
    /\ SubSeq(body', 1, Len(Flushed)) = Flushed
    /\ Len(body') > Len(Flushed) => HasFrame(body'[Len(body')])

\* C16, as stated: every img start tag, with a src or without, adds the
\* paragraph under construction to the body, then one frame at most, and
\* leaves a new empty paragraph as the current block.
C16_EveryImgFlushesAndOpens ==
    [][\A ev \in ImageEvents :
          (Feeds(ev) /\ IsStart(ev, "img")) =>
              (FlushedThenOneFrameAtMost /\ current_para' = P)]_vars

\* C16, amended: an img start tag with a non-empty src does so, whether the
\* image is embedded, skipped or fails; an img start tag without a src
\* changes nothing.
C16_ImgWithSrcFlushesAndOpens ==
    [][\A ev \in ImageEvents :
          (Feeds(ev) /\ IsStart(ev, "img")) =>
              /\ pc' = "feed"
              /\ handled' = handled + 1
              /\ style_stack' = style_stack
              /\ IF Truthy(AttrGet(ev.attrs, "src"))
                 THEN FlushedThenOneFrameAtMost /\ current_para' = P
                 ELSE UNCHANGED <<body, current_para, image_counter>>]_vars

\* C16 witness: <p>x<img src="/images/a.png"><img src="/images/missing.png">
\* has been handled: the paragraph of x, the frame after it, an empty
\* paragraph closed by the second img, and a new paragraph begun.
C16_Witness ==
    /\ hist = <<StartTag("p", NoAttrs), Text(<<"x">>), ImgServed, ImgMissing>>
    /\ handled = 4
    /\ Len(body) = 3
    /\ body[1] = Para(<<"x">>)
    /\ HasFrame(body[2])
    /\ body[3] = P
    /\ current_para = P

(***************************************************************************)
(* SpecStyledRoundTrip: a paragraph or heading of up to MaxRuns runs, plain *)
(* or inside strong, em or a highlight span, converted, then the body      *)
(* extracted.                                                              *)
(***************************************************************************)
MaxRuns == 2

RunTexts == {<<"x">>, <<"y", " ", "z">>}

StyledRuns ==
    {<<Text(t)>> : t \in RunTexts} \cup
    {<<StartTag(w, NoAttrs), Text(t), EndTag(w)>> : w \in {"strong", "em"}, t \in RunTexts}
    \cup {<<SpanYellow, Text(t), EndTag("span")>> : t \in RunTexts}

RECURSIVE RunSeqs(_)
RunSeqs(n) ==
    IF n = 0 THEN {<<>>}
    ELSE RunSeqs(n - 1) \cup {rs \o r : rs \in RunSeqs(n - 1), r \in StyledRuns}

StyledInputs ==
    {<<StartTag(b, NoAttrs)>> \o rs \o <<EndTag(b)>> :
        b \in {"p", "h2"}, rs \in RunSeqs(MaxRuns) \ {<<>>}}

InitStyledRoundTrip ==
    /\ InitAlone
    /\ pc = "feed"
    /\ InitParser
    /\ InitSize
    /\ input \in StyledInputs
    /\ odt_path = FALSE
    /\ tmp_path = FALSE
    /\ tmpfile = "none"
    /\ response = 0
    /\ upload = <<>>
    /\ markdown_content = <<>>

SpecStyledRoundTrip == InitStyledRoundTrip /\ [][NextRoundTrip]_vars

(***************************************************************************)
(* Claims on SpecStyledRoundTrip                                           *)
(***************************************************************************)
\* The text of the Text events of `events`, in order
RECURSIVE AllText(_)
AllText(events) ==
    IF events = <<>> THEN <<>>
    ELSE (IF IsText(Head(events)) THEN Head(events).data ELSE <<>>) \o AllText(Tail(events))

\* C17: the block converted and extracted gives the text of all of its runs,
\* plain and styled, in order (after "## " for the heading), and a newline.
C17_StyledRunsExtracted ==
    pc = "extracted" =>
        markdown_content =
            (IF hist[1].tag = "h2" THEN <<"#", "#", " ">> ELSE <<>>)
                \o AllText(hist) \o <<"\n">>

(***************************************************************************)
(* Claims on SpecReverse: lists and containers                             *)
(***************************************************************************)
\* <text:list><text:list-item><text:p>a</text:p></text:list-item></text:list>
OneItemList == <<Element("list", <<Element("list-item", <<Para(<<"a">>)>>)>>)>>

\* C18: a document that holds a List (and no bare text node) is extracted
\* without error, and the list of one item with the paragraph a gives "- a\n".
C18_ListExtracted ==
    (pc # "loaded" /\ NodesNamed(upload, "list") > 0 /\ ~HasBareText(upload)) =>
        /\ Extracted
        /\ upload = OneItemList => markdown_content = <<"-", " ", "a", "\n">>

\* A List inside a ListItem of a List
RECURSIVE HasNestedList(_)
HasNestedList(elements) ==
    \E i \in DOMAIN elements :
        \/ /\ elements[i].qname = "list"
           /\ \E j \in DOMAIN elements[i].childNodes :
                 /\ elements[i].childNodes[j].qname = "list-item"
                 /\ NodesNamed(elements[i].childNodes[j].childNodes, "list") > 0
        \/ HasNestedList(elements[i].childNodes)

\* The text nodes with this data in the trees of `elements`
RECURSIVE TextNodes(_, _)
TextNodes(elements, data) ==
    IF elements = <<>> THEN 0
    ELSE (IF Head(elements).nodeType = "text" /\ Head(elements).data = data THEN 1 ELSE 0)
         + TextNodes(Head(elements).childNodes, data)
         + TextNodes(Tail(elements), data)

\* C19: of a document with a List inside a ListItem of a List (no table, no
\* bare text node) the output holds the text of each paragraph once: a as
\* many times as the document has paragraphs that read a.
C19_NestedItemTextOnce ==
    (/\ pc # "loaded"
     /\ HasNestedList(upload)
     /\ NodesNamed(upload, "table") = 0
     /\ ~HasBareText(upload)) =>
        Extracted /\ Occurrences(markdown_content, <<"a">>) = TextNodes(upload, <<"a">>)

\* The children of the elements that are no paragraph, heading, span, list
\* or table put in the place of these elements
RECURSIVE Flattened(_)
Flattened(elements) ==
    IF elements = <<>> THEN <<>>
    ELSE (IF /\ Head(elements).nodeType # "text"
             /\ Head(elements).qname \notin {"p", "h", "span", "list", "table"}
          THEN Flattened(Head(elements).childNodes)
          ELSE <<Head(elements)>>)
         \o Flattened(Tail(elements))

\* C20: a document without a List is extracted without error, bare text
\* nodes or not, and its containers add nothing: the output is that of their
\* children put in their place.
C20_ContainersNeverFatal ==
    (pc # "loaded" /\ NodesNamed(upload, "list") = 0) =>
        /\ Extracted
        /\ markdown_content = extract_text_from_elements(Flattened(upload), 0).result

(***************************************************************************)
(* SpecMixed: inputs of blocks, breaks, images, text, white space and      *)
(* style tags together.                                                    *)
(***************************************************************************)
MaxMixedEvents == 4

WhiteSpace == Text(<<" ", "\n">>)

MixedEvents ==
    {StartTag("p", NoAttrs), EndTag("p"), StartTag("h2", NoAttrs), EndTag("h2"),
     Br, ImgServed, Text(<<"x">>), WhiteSpace,
     StartTag("strong", NoAttrs), EndTag("strong"), SpanYellow, EndTag("span"),
     MarkYellow, EndTag("mark")}

FeedMixed == Feed(MixedEvents, MaxMixedEvents)

NextMixed == FeedMixed \/ FeedReturns

SpecMixed == InitFeed /\ [][NextMixed]_vars

(***************************************************************************)
(* Claims on SpecMixed                                                     *)
(***************************************************************************)
\* The start or the end of strong, b, em, i, span or mark
IsStyleTagEvent(ev) ==
    ev.type \in {"start", "end"} /\ ev.tag \in {"strong", "b", "em", "i", "span", "mark"}

\* C21: Text, br, img and the start and end of p, div and h1..h6 leave the
\* style stack as it is; the start and end of strong, b, em, i, span and mark
\* leave the current block, the body and the image counter as they are.
C21_StackAndBlocksApart ==
    [][\A ev \in MixedEvents :
          Feeds(ev) =>
              /\ pc' = "feed"
              /\ IF IsStyleTagEvent(ev)
                 THEN UNCHANGED <<current_para, body, image_counter, objects>>
                 ELSE style_stack' = style_stack]_vars

\* C21 witness: <p><strong></p>x has been handled: the style opened in the
\* first block is on the stack after its end, and x, in the next block, is
\* a bold run.
C21_Witness ==
    /\ hist = <<StartTag("p", NoAttrs), StartTag("strong", NoAttrs), EndTag("p"),
                Text(<<"x">>)>>
    /\ handled = 4
    /\ style_stack = <<<<"bold">>>>
    /\ body = <<P>>
    /\ current_para = AddChild(P, Span(<<"Bold">>, <<"x">>))

\* C23: a Text event of white space only changes nothing: no run, no
\* paragraph opened, nothing added to the body, the style stack as it was.
C23_WhitespaceTextChangesNothing ==
    [][\A ev \in MixedEvents :
          (Feeds(ev) /\ ev.type = "data" /\ Strip(ev.data) = <<>>) =>
              /\ UNCHANGED <<current_para, style_stack, body, image_counter, objects>>
              /\ pc' = "feed"
              /\ handled' = handled + 1]_vars

\* C23 witness: <mark data-color="yellow"> and white space have been
\* handled, with no block open: there is still none, the stack holds the
\* entry of the mark and the body is empty.
C23_Witness ==
    /\ hist = <<MarkYellow, WhiteSpace>>
    /\ handled = 2
    /\ current_para = None
    /\ style_stack = <<<<"highlight-", "yellow">>>>
    /\ body = <<>>

\* s is the beginning of t
IsPrefix(s, t) == Len(s) <= Len(t) /\ SubSeq(t, 1, Len(s)) = s

\* The objects in the body are told apart, one for each child of doc.text,
\* and self.current_para is bound to an object exactly when it is not None.
ObjectsOfBody ==
    /\ Len(objects.body) = Len(body)
    /\ \A i \in 1 .. Len(objects.body) : objects.body[i] \in 1 .. objects.made
    /\ (objects.para = 0) <=> (current_para = None)

\* C22: after any sequence of events no object is in the body twice and the
\* current block is not an object of the body, so that no run is added to a
\* node of the body; every event leaves the nodes of the body as they were
\* and in their places, adding only at the end.
C22_FlushedNodesImmutable ==
    /\ [](/\ ObjectsOfBody
          /\ \A i, j \in 1 .. Len(objects.body) :
                objects.body[i] = objects.body[j] => i = j
          /\ objects.para \notin Range(objects.body))
    /\ [][IsPrefix(body, body') /\ IsPrefix(objects.body, objects'.body)]_vars

\* C22 witness: x<br>x<img src="/images/a.png"> has been handled: the
\* paragraph of the first x, the paragraph of the second and the paragraph
\* of the frame are three objects of the body, and the paragraph under
\* construction is a fourth.
C22_Witness ==
    /\ hist = <<Text(<<"x">>), Br, Text(<<"x">>), ImgServed>>
    /\ handled = 4
    /\ Len(body) = 3
    /\ body[1] = body[2]
    /\ Frames(body) = 1
    /\ current_para = P
    /\ objects = [para |-> 4, body |-> <<1, 2, 3>>, made |-> 4]

(***************************************************************************)
(* SpecSources: one img whose src is a path of a few segments.             *)
(***************************************************************************)
MaxSegments == 5

Segments == {"", "images", "docs", "..", "%2e%2e", "a.png", "secret.png"}

\* The paths of at most MaxSegments segments that end in a file name
SourcePaths ==
    {p \in UNION {[1 .. n -> Segments] : n \in 1 .. MaxSegments} :
        p[Len(p)] \in {"a.png", "secret.png"}}

SourceInputs == {<<Img(scheme, p)>> : scheme \in {"", "http"}, p \in SourcePaths}

InitSources ==
    /\ InitAlone
    /\ pc = "feed"
    /\ InitParser
    /\ InitSize
    /\ input \in SourceInputs
    /\ odt_path = FALSE
    /\ tmp_path = FALSE
    /\ tmpfile = "none"
    /\ response = 0
    /\ upload = <<>>
    /\ markdown_content = <<>>

NextSources == FeedInput \/ FeedDone

SpecSources == InitSources /\ [][NextSources]_vars

(***************************************************************************)
(* Claims on SpecSources                                                   *)
(***************************************************************************)
\* The files of the frames of a body: what each draw:image names
EmbeddedFiles(nodes) ==
    {nodes[i].childNodes[1].childNodes[1].href :
        i \in {j \in DOMAIN nodes : HasFrame(nodes[j])}}

\* The file a src names as stated: the image directory joined with what
\* follows the leading /images/, or with the path less its leading slashes;
\* none for an http or https src elsewhere.
NamedFile(img_src) ==
    IF StartsWithImages(img_src.path)
    THEN {PathJoin(image_folder, Unquote(SubSeq(img_src.path, 3, Len(img_src.path))))}
    ELSE IF img_src.scheme \in {"http", "https"} THEN {}
    ELSE {PathJoin(image_folder, Unquote(LStripSlash(img_src.path)))}

\* C24: the file an img embeds is the file its src names: for a path that
\* starts with /images/ the image directory joined with the whole of what
\* follows that prefix, for any other src that is not http or https the
\* image directory joined with the path less its leading slashes; it is
\* embedded when it is an image, and nothing is embedded when it is not.
C24_ResolvesWholeRemainder ==
    (handled = 1 /\ IsStart(hist[1], "img")) =>
        EmbeddedFiles(body) =
            {f \in NamedFile(hist[1].attrs["src"]) : FileAt(f).kind = "image"}

\* C26: every file embedded lies in the image directory.
C26_EmbeddedInsideImageFolder ==
    \A f \in EmbeddedFiles(body) : IsPrefix(image_folder, Normalize(f, <<>>))

(***************************************************************************)
(* One more claim on SpecStyles                                            *)
(***************************************************************************)
\* A mark start tag with a data-color that is not empty
IsColouredMark(ev) == IsStart(ev, "mark") /\ Truthy(AttrGet(ev.attrs, "data-color"))

\* C25: a mark start tag with a data-color that is not empty pushes
\* highlight-<color>, whatever the colour; when the colour is not one of the
\* table, the text that follows the tag, handled with that entry on top of
\* the stack, is a run without a style.
C25_UnknownMarkColourUnstyled ==
    /\ [][\A ev \in StyleEvents :
            (Feeds(ev) /\ IsColouredMark(ev)) =>
                style_stack' =
                    Append(style_stack, <<"highlight-">> \o ev.attrs["data-color"].toks)]_vars
    /\ []((/\ LastHandledIsText
           /\ handled >= 2
           /\ IsColouredMark(hist[handled - 1])
           /\ hist[handled - 1].attrs["data-color"].toks \notin {<<c>> : c \in TableColors})
              => RunStyle(LastRun) = <<"plain">>)

====
